---- MODULE Spec2Model ----
(***************************************************************************)
(* Model of src/src/orchestrator.py: the Orchestrator's handle_request     *)
(* pipeline (user story extraction, routing, branch creation, sequential   *)
(* specialists, GSD handoff, PR wait) and its pure helpers.                *)
(*                                                                         *)
(* Text is a sequence of one-character strings.  The two non-ASCII code    *)
(* points the routing keywords use are written "n~" (U+00F1) and "N~"      *)
(* (U+00D1).                                                               *)
(***************************************************************************)
EXTENDS Integers, Sequences, FiniteSets, TLC

\* runs         : per handle_request call, its locals and position
\* prompts      : self.prompts, the names of the prompt files loaded
\* context_file : the file gsd_context.json in the temp directory
\* refs         : the branch names that exist at the hosting service
\* running      : the run that holds the event loop, 0 when none does
VARIABLES runs, prompts, context_file, refs, running

vars == <<runs, prompts, context_file, refs, running>>

(***************************************************************************)
(* Bounds of the model.                                                    *)
(***************************************************************************)
\* number of text fragments a generated request title is built from
MaxFrags == 2

(***************************************************************************)
(* Generic sequence helpers.                                               *)
(***************************************************************************)
RECURSIVE Flatten(_)
Flatten(ss) == IF ss = <<>> THEN <<>> ELSE Head(ss) \o Flatten(Tail(ss))

RECURSIVE Join(_, _)
Join(sep, ss) ==
    IF ss = <<>> THEN <<>>
    ELSE IF Len(ss) = 1 THEN ss[1]
    ELSE ss[1] \o sep \o Join(sep, Tail(ss))

Range(s) == {s[i] : i \in 1..Len(s)}

\* all orderings of a finite set, as sequences without repetition
Perms(S) == {p \in [1..Cardinality(S) -> S] : Range(p) = S}

(***************************************************************************)
(* Characters: str.lower() and the escaping json.dumps applies             *)
(* (ensure_ascii is left at its default, True).                            *)
(***************************************************************************)
\* the upper-case characters and their lower-case forms
ToLower ==
    [A |-> "a", B |-> "b", C |-> "c", D |-> "d", E |-> "e", F |-> "f",
     G |-> "g", H |-> "h", I |-> "i", J |-> "j", K |-> "k", L |-> "l",
     M |-> "m", N |-> "n", O |-> "o", P |-> "p", Q |-> "q", R |-> "r",
     S |-> "s", T |-> "t", U |-> "u", V |-> "v", W |-> "w", X |-> "x",
     Y |-> "y", Z |-> "z"]
    @@ ("N~" :> "n~")

AsciiLowerAlnum ==
    {"a","b","c","d","e","f","g","h","i","j","k","l","m","n","o","p","q",
     "r","s","t","u","v","w","x","y","z",
     "0","1","2","3","4","5","6","7","8","9"}

\* str.lower() on one character
lower_char(c) == IF c \in DOMAIN ToLower THEN ToLower[c] ELSE c

\* str.lower()
lower(text) == [i \in 1..Len(text) |-> lower_char(text[i])]

\* json.dumps of one character of a string (ensure_ascii=True)
json_escape_char(c) ==
    CASE c = "n~" -> <<"\\","u","0","0","f","1">>
      [] c = "N~" -> <<"\\","u","0","0","d","1">>
      [] c = "\"" -> <<"\\","\"">>
      [] c = "\\" -> <<"\\","\\">>
      [] OTHER    -> <<c>>

\* json.dumps of a str
json_dumps_str(s) ==
    <<"\"">> \o Flatten([i \in 1..Len(s) |-> json_escape_char(s[i])]) \o <<"\"">>

\* `word in text` for str operands
Contains(text, word) ==
    \E i \in 0..(Len(text) - Len(word)) :
        \A j \in 1..Len(word) : text[i + j] = word[j]

(***************************************************************************)
(* JSON values and user stories.  A user story is the dict json.loads      *)
(* returns: an ordered sequence of <<key, value>> members.                 *)
(***************************************************************************)
Str(s)   == [kind |-> "str",  val |-> s]
Lst(ss)  == [kind |-> "list", val |-> ss]
Null     == [kind |-> "null", val |-> <<>>]

json_dumps_value(v) ==
    CASE v.kind = "str"  -> json_dumps_str(v.val)
      [] v.kind = "list" ->
            <<"[">> \o Join(<<",", " ">>,
                            [i \in 1..Len(v.val) |-> json_dumps_str(v.val[i])])
                    \o <<"]">>
      [] OTHER           -> <<"n","u","l","l">>

\* json.dumps of a dict with the default separators (", " and ": ")
json_dumps(story) ==
    <<"{">> \o Join(<<",", " ">>,
                    [i \in 1..Len(story) |->
                        json_dumps_str(story[i][1]) \o <<":", " ">>
                            \o json_dumps_value(story[i][2])])
            \o <<"}">>

HasKey(story, key) == \E i \in 1..Len(story) : story[i][1] = key
Get(story, key) == story[CHOOSE i \in 1..Len(story) : story[i][1] = key][2]

K_title == <<"t","i","t","l","e">>
K_summary == <<"s","u","m","m","a","r","y">>
K_acceptance_criteria ==
    <<"a","c","c","e","p","t","a","n","c","e","_","c","r","i","t","e","r","i","a">>
K_technical_notes ==
    <<"t","e","c","h","n","i","c","a","l","_","n","o","t","e","s">>
K_estimated_complexity ==
    <<"e","s","t","i","m","a","t","e","d","_","c","o","m","p","l","e","x","i","t","y">>

(***************************************************************************)
(* _decide_agents: the routing keywords and the decision.                  *)
(***************************************************************************)
NewFeatureWords ==
    { <<"a","n~","a","d","e">>,
      <<"i","m","p","l","e","m","e","n","t","a">>,
      <<"c","r","e","a">>,
      <<"n","u","e","v","a">>,
      <<"a","n~","a","d","i","r">>,
      <<"a","g","r","e","g","a","r">>,
      <<"a","u","t","h">>,
      <<"i","n","t","e","g","r","a">>,
      <<"c","o","n","e","c","t","a">> }

SensitiveWords ==
    { <<"a","u","t","h">>,
      <<"s","e","c","u","r","i","t","y">>,
      <<"p","a","s","s","w","o","r","d">>,
      <<"t","o","k","e","n">>,
      <<"p","h","a","r","m","a">>,
      <<"p","a","t","i","e","n","t">>,
      <<"h","i","p","a","a">> }

Roles == {"researcher", "security", "architect", "documenter"}

\* mutant: the serialized story is searched without lower-casing it
story_text_cased(user_story) == json_dumps(user_story)

\* story_text = json.dumps(user_story).lower()
story_text(user_story) ==
    CHOOSE text \in {lower(dumped) : dumped \in {json_dumps(user_story)}} : TRUE

\* any(word in story_text for word in words)
any_word_in(text, words) == \E word \in words : Contains(text, word)

\* mutant: architect is appended only when researcher is not
agents_appended_architect_else(user_story) ==
    LET text == story_text(user_story)
    IN  (IF any_word_in(text, NewFeatureWords) THEN <<"researcher">>
         ELSE <<"architect">>)
        \o <<"documenter">>
        \o (IF any_word_in(text, SensitiveWords) THEN <<"security">> ELSE <<>>)

\* the appends to `agents`, given story_text
agents_of_text(text) ==
    (IF any_word_in(text, NewFeatureWords) THEN <<"researcher">> ELSE <<>>)
    \o <<"architect">>
    \o <<"documenter">>
    \o (IF any_word_in(text, SensitiveWords) THEN <<"security">> ELSE <<>>)

\* the list `agents` before the final list(set(agents))
agents_appended(user_story) ==
    CHOOSE agents \in
        {agents_of_text(text) : text \in {story_text(user_story)}} : TRUE

\* mutant: architect is appended once more and the list is returned as built
_decide_agents_as_built(user_story) ==
    {agents_appended(user_story) \o <<"architect">>}

\* list(set(agents)): the lists _decide_agents can return; the iteration
\* order of a set of str is not fixed, so every ordering is possible
_decide_agents(user_story) ==
    UNION {Perms(roles) : roles \in {Range(agents_appended(user_story))}}

(***************************************************************************)
(* _slugify: text.lower(), re.sub(r'[^a-z0-9]+', '-', text), strip('-').   *)
(***************************************************************************)
RECURSIVE DropNonAlnum(_)
DropNonAlnum(text) ==
    IF text = <<>> \/ Head(text) \in AsciiLowerAlnum THEN text
    ELSE DropNonAlnum(Tail(text))

\* re.sub(r'[^a-z0-9]+', '-', text)
RECURSIVE sub_runs(_)
sub_runs(text) ==
    IF text = <<>> THEN <<>>
    ELSE IF Head(text) \in AsciiLowerAlnum
         THEN <<Head(text)>> \o sub_runs(Tail(text))
         ELSE <<"-">> \o sub_runs(DropNonAlnum(Tail(text)))

RECURSIVE lstrip(_, _)
lstrip(text, c) ==
    IF text # <<>> /\ Head(text) = c THEN lstrip(Tail(text), c) ELSE text

RECURSIVE rstrip(_, _)
rstrip(text, c) ==
    IF text # <<>> /\ text[Len(text)] = c
    THEN rstrip(SubSeq(text, 1, Len(text) - 1), c)
    ELSE text

\* str.strip(c)
strip(text, c) == rstrip(lstrip(text, c), c)

\* mutant: the separators are stripped before the runs are replaced
_slugify_strip_first(text) == sub_runs(strip(lower(text), "-"))

_slugify(text) == strip(sub_runs(lower(text)), "-")

\* f"feature/{self._slugify(user_story['title'])}"
branch_name_of(title) == <<"f","e","a","t","u","r","e","/">> \o _slugify(title)

(***************************************************************************)
(* Inputs.  Titles are built from fragments: the routing keywords, a cased *)
(* variant, pieces of a keyword and neutral text.                          *)
(***************************************************************************)
Fragments ==
    NewFeatureWords \cup SensitiveWords \cup
    { <<"A","u","t","h">>, <<"a","u","t">>, <<"h">>, <<" ">> }

RECURSIVE TextsUpTo(_)
TextsUpTo(n) ==
    IF n = 0 THEN {<<>>}
    ELSE TextsUpTo(n - 1) \cup {t \o f : t \in TextsUpTo(n - 1), f \in Fragments}

\* a well-formed user story with the five fields of the prompt's format
FullStory(title, criteria, notes) ==
    << <<K_title, title>>,
       <<K_summary, Str(<<"A","s"," ","d","e","v",","," ","I"," ","w","a","n","t"," ","i","t">>)>>,
       <<K_acceptance_criteria, Lst(criteria)>>,
       <<K_technical_notes, Str(notes)>>,
       <<K_estimated_complexity, Str(<<"l","o","w">>)>> >>

\* a full story with the generated text in one place: the title, an
\* acceptance criterion, or the technical notes
StoryWith(place, t) ==
    CASE place = "title"    -> FullStory(Str(t), <<<<"o","k">>>>, <<>>)
      [] place = "criteria" -> FullStory(Str(<<"f","i","x">>), <<<<"o","k">>, t>>, <<>>)
      [] OTHER              -> FullStory(Str(<<"f","i","x">>), <<>>, t)

\* stories the router is exercised on: every generated text as the title,
\* every fragment as a criterion or as the notes, and two degenerate dicts
RouterStories ==
    {StoryWith("title", t) : t \in TextsUpTo(MaxFrags)}
    \cup {StoryWith(place, t) : place \in {"criteria", "notes"}, t \in Fragments}
    \cup { <<>>, << <<K_title, Null>> >> }

T_typo  == <<"F","i","x"," ","t","y","p","o"," ","i","n"," ","R","E","A","D","M","E">>
T_oauth == <<"A","d","d"," ","O","A","u","t","h","2"," ","l","o","g","i","n">>
T_crea  == <<"C","r","e","a"," ","p","a","n","e","l">>
T_token == <<"R","o","t","a","t","e"," ","t","o","k","e","n">>

\* the member lists a generated JSON object can carry in a full run
RunStories ==
    { FullStory(Str(T_typo), <<<<"o","k">>>>, <<>>),
      FullStory(Str(T_oauth), <<<<"o","k">>>>, <<>>),
      FullStory(Str(T_crea), <<<<"o","k">>>>, <<>>),
      FullStory(Str(T_token), <<<<"o","k">>>>, <<>>),
      \* no "summary"
      << <<K_title, Str(T_typo)>> >>,
      \* no "title"
      << <<K_summary, Str(<<"o","k">>)>> >>,
      \* "title" is not a string
      << <<K_title, Null>>, <<K_summary, Str(<<"o","k">>)>> >> }

(***************************************************************************)
(* The generator's response text, as tokens: "{" and "}", "w" for prose    *)
(* without braces, "m" for the text of the members of one JSON object.     *)
(***************************************************************************)
\* number of tokens of a generator response
MaxTokens == 4

Tokens == {"{", "}", "w", "m"}

Contents == UNION {[1..n -> Tokens] : n \in 0..MaxTokens}

\* re.search(r'\{.*\}', content, re.DOTALL): greedy, from the first "{" to
\* the last "}" after it; <<>> stands for no match
json_match(content) ==
    LET opens  == {i \in 1..Len(content) : content[i] = "{"}
        first  == CHOOSE i \in opens : \A k \in opens : i <= k
        closes == {j \in 1..Len(content) : content[j] = "}" /\ j > first}
        last   == CHOOSE j \in closes : \A k \in closes : j >= k
    IN  IF opens = {} THEN <<>>
        ELSE IF closes = {} THEN <<>>
        ELSE SubSeq(content, first, last)

\* json.loads(json_match.group()) succeeds on one object and nothing else
json_loads_ok(matched) == matched \in { <<"{", "}">>, <<"{", "m", "}">> }

\* the dict json.loads returns, `members` being what "m" stands for
json_loads(matched, members) == IF matched = <<"{", "}">> THEN <<>> ELSE members

(***************************************************************************)
(* State of one handle_request call.                                       *)
(***************************************************************************)
\* mutant: the architect block comes first
SeqOrder_architect_first ==
    <<"architect", "researcher", "security", "documenter">>

\* mutant: the security block comes before the researcher block
SeqOrder_security_first ==
    <<"security", "researcher", "architect", "documenter">>

\* the order of the four `if ... in agents` blocks of the sequencer
SeqOrder == <<"researcher", "security", "architect", "documenter">>

\* the texts a specialist can return; '\n'.join of no text block is ''
OutputTexts == { <<>>, <<"t","x","t">> }

Repo == <<"o","r","g","/","r","e","p","o">>

PyNone     == [some |-> FALSE, text |-> <<>>]
PyStr(t)   == [some |-> TRUE,  text |-> t]

\* dict.get(key)
dict_get(d, key) == IF key \in DOMAIN d THEN PyStr(d[key]) ELSE PyNone

NoFile == [exists |-> FALSE, user_story |-> <<>>, research |-> PyNone,
           architecture |-> PyNone, documentation |-> PyNone,
           security |-> PyNone]

NewRun(content, members) ==
    [ pc |-> "create_user_story", status |-> "running",
      content |-> content, members |-> members,
      user_story |-> <<>>, agents_needed |-> <<>>, branch_name |-> <<>>,
      post_status |-> "none",
      seq_i |-> 1, results |-> <<>>, invoked |-> <<>>,
      architect_context |-> {},
      specialist_results |-> <<>>,
      written |-> NoFile, pr_url |-> <<>>, error |-> "none",
      entered |-> <<"Extracting">> ]

RunIds == DOMAIN runs

\* the stage of the Run Coordinator a position of handle_request belongs to
StageOfPc(pc) ==
    CASE pc = "create_user_story"                          -> "Extracting"
      [] pc = "decide_agents"                              -> "Routing"
      [] pc \in {"create_branch_get", "create_branch_post"} -> "BranchProvisioning"
      [] pc \in {"seq", "await_executor"}                  -> "Sequencing"
      [] pc = "execute_gsd"                                -> "Publishing"
      [] OTHER                                             -> "AwaitingCompletion"

Stage(run) ==
    CASE run.status = "raised"   -> "Failed"
      [] run.status = "returned" -> "Done"
      [] OTHER                   -> StageOfPc(run.pc)

\* a coroutine gives up the event loop only while it awaits the generator,
\* and when it ends
Suspended(run) ==
    run.status # "running" \/ run.pc \in {"create_user_story", "await_executor"}

CanRun(r) ==
    /\ runs[r].status = "running"
    /\ running \in {0, r}

\* run r moves to `next`
Step(r, next) ==
    /\ runs' = [runs EXCEPT ![r] = next]
    /\ running' = IF Suspended(next) THEN 0 ELSE r

\* an exception leaves handle_request: nothing in it catches
Raise(run, exc) ==
    [run EXCEPT !.status = "raised", !.error = exc,
                !.entered = Append(@, "Failed")]

Goto(run, pc) ==
    [run EXCEPT !.pc = pc,
                !.entered = IF StageOfPc(pc) = StageOfPc(run.pc) THEN @
                            ELSE Append(@, StageOfPc(pc))]

(***************************************************************************)
(* Step 1: _create_user_story and the print of user_story['summary'].      *)
(***************************************************************************)
\* mutant: without a match the run goes on with a stand-in story
create_user_story_result_fallback(run) ==
    LET matched == json_match(run.content)
        story   == json_loads(matched, run.members)
    IN  IF matched = <<>>
        THEN Goto([run EXCEPT !.user_story = << <<K_summary, Str(<<>>)>> >>,
                              !.members = <<>>],
                  "decide_agents")
        ELSE IF ~json_loads_ok(matched) THEN Raise(run, "JSONDecodeError")
        ELSE IF ~HasKey(story, K_summary)
             THEN Raise([run EXCEPT !.user_story = story, !.members = <<>>],
                        "KeyError")
        ELSE Goto([run EXCEPT !.user_story = story, !.members = <<>>],
                  "decide_agents")

create_user_story_result(run) ==
    LET matched == json_match(run.content)
        story   == json_loads(matched, run.members)
    IN  IF matched = <<>> THEN Raise(run, "ValueError")
        ELSE IF ~json_loads_ok(matched) THEN Raise(run, "JSONDecodeError")
        ELSE IF ~HasKey(story, K_summary)
             THEN Raise([run EXCEPT !.user_story = story, !.members = <<>>],
                        "KeyError")
        ELSE Goto([run EXCEPT !.user_story = story, !.members = <<>>],
                  "decide_agents")

CreateUserStoryReturns(r) ==
    /\ CanRun(r)
    /\ runs[r].pc = "create_user_story"
    /\ Step(r, create_user_story_result(runs[r]))
    /\ UNCHANGED <<prompts, context_file, refs>>

\* client.messages.create raises
CreateUserStoryRaises(r) ==
    /\ CanRun(r)
    /\ runs[r].pc = "create_user_story"
    /\ Step(r, Raise(runs[r], "APIError"))
    /\ UNCHANGED <<prompts, context_file, refs>>

(***************************************************************************)
(* Step 2: routing.                                                        *)
(***************************************************************************)
DecideAgents(r) ==
    /\ CanRun(r)
    /\ runs[r].pc = "decide_agents"
    /\ \E agents \in _decide_agents(runs[r].user_story) :
          Step(r, Goto([runs[r] EXCEPT !.agents_needed = agents],
                       "create_branch_get"))
    /\ UNCHANGED <<prompts, context_file, refs>>

(***************************************************************************)
(* Step 3: branch name and _create_branch (GET of refs/heads/main, then    *)
(* POST of the new ref).                                                   *)
(***************************************************************************)
\* mutant: a failed lookup of the default branch is passed over and the
\* specialists are started without a branch
create_branch_get_result_passes(run, outcome) ==
    IF ~HasKey(run.user_story, K_title) THEN Raise(run, "KeyError")
    ELSE IF Get(run.user_story, K_title).kind # "str"
         THEN Raise(run, "AttributeError")
    ELSE LET named == [run EXCEPT !.branch_name =
                          branch_name_of(Get(run.user_story, K_title).val)]
         IN  CASE outcome = "ok"         -> Goto(named, "create_branch_post")
               [] OTHER                  -> Goto(named, "seq")

\* line 68, then requests.get and response.json()['object']['sha']
create_branch_get_result(run, outcome) ==
    IF ~HasKey(run.user_story, K_title) THEN Raise(run, "KeyError")
    ELSE IF Get(run.user_story, K_title).kind # "str"
         THEN Raise(run, "AttributeError")
    ELSE LET named == [run EXCEPT !.branch_name =
                          branch_name_of(Get(run.user_story, K_title).val)]
         IN  CASE outcome = "ok"         -> Goto(named, "create_branch_post")
               [] outcome = "not_found"  -> Raise(named, "KeyError")
               [] OTHER                  -> Raise(named, "ConnectionError")

CreateBranchGet(r) ==
    /\ CanRun(r)
    /\ runs[r].pc = "create_branch_get"
    /\ \E outcome \in {"ok", "not_found", "conn_error"} :
          Step(r, create_branch_get_result(runs[r], outcome))
    /\ UNCHANGED <<prompts, context_file, refs>>

\* requests.post(create_url, ...): the response is not looked at
create_branch_post_result(run, outcome) ==
    CASE outcome = "conn_error" -> Raise(run, "ConnectionError")
      [] OTHER -> Goto([run EXCEPT !.post_status = outcome], "seq")

\* the hosting service creates the ref unless the name exists; it can
\* reject the request in either case
PostOutcomes(name) ==
    {"rejected", "conn_error"} \cup (IF name \in refs THEN {} ELSE {"created"})

CreateBranchPost(r) ==
    /\ CanRun(r)
    /\ runs[r].pc = "create_branch_post"
    /\ \E outcome \in PostOutcomes(runs[r].branch_name) :
          /\ Step(r, create_branch_post_result(runs[r], outcome))
          /\ refs' = IF outcome = "created"
                     THEN refs \cup {runs[r].branch_name} ELSE refs
    /\ UNCHANGED <<prompts, context_file>>

(***************************************************************************)
(* Step 4: _spawn_specialists_sequential and the four specialists.         *)
(***************************************************************************)
\* d[k] = v on a dict
dict_put(d, k, v) == [x \in (DOMAIN d) \cup {k} |-> IF x = k THEN v ELSE d[x]]

\* `if research:` on an Optional[str]
Truthy(opt) == opt.some /\ opt.text # <<>>

\* the parts _spawn_architect puts in context_parts
architect_parts(research, security) ==
    {"user_story"}
    \cup (IF Truthy(research) THEN {"research"} ELSE {})
    \cup (IF Truthy(security) THEN {"security"} ELSE {})

\* the prompt lookup of a specialist: self.prompts[role], but
\* self.prompts.get('security', default) for security
prompt_found(role) == role = "security" \/ role \in prompts

AtSeq(r) ==
    /\ CanRun(r)
    /\ runs[r].pc = "seq"
    /\ runs[r].seq_i <= Len(SeqOrder)

\* `if role in agents` is false: the block is skipped
SkipRole(r) ==
    /\ AtSeq(r)
    /\ SeqOrder[runs[r].seq_i] \notin Range(runs[r].agents_needed)
    /\ Step(r, [runs[r] EXCEPT !.seq_i = @ + 1])
    /\ UNCHANGED <<prompts, context_file, refs>>

\* the specialist of the block is called: it builds its request and awaits
\* client.messages.create, or raises KeyError on a missing prompt
invoke_result(run, role) ==
    LET called == [run EXCEPT
                     !.invoked = Append(@, role),
                     !.architect_context =
                        IF role = "architect"
                        THEN architect_parts(dict_get(run.results, "researcher"),
                                             dict_get(run.results, "security"))
                        ELSE @]
    IN  IF prompt_found(role) THEN [called EXCEPT !.pc = "await_executor"]
        ELSE Raise(called, "KeyError")

InvokeRole(r) ==
    /\ AtSeq(r)
    /\ SeqOrder[runs[r].seq_i] \in Range(runs[r].agents_needed)
    /\ Step(r, invoke_result(runs[r], SeqOrder[runs[r].seq_i]))
    /\ UNCHANGED <<prompts, context_file, refs>>

\* mutant: an empty output is not stored
executor_return_drops_empty(run, text) ==
    [run EXCEPT !.results = IF text = <<>> THEN @
                            ELSE dict_put(@, SeqOrder[run.seq_i], text),
                !.seq_i = @ + 1,
                !.pc = "seq"]

\* results[role] = await self._spawn_<role>(...)
executor_return(run, text) ==
    [run EXCEPT !.results = dict_put(@, SeqOrder[run.seq_i], text),
                !.seq_i = @ + 1,
                !.pc = "seq"]

ExecutorReturns(r) ==
    /\ CanRun(r)
    /\ runs[r].pc = "await_executor"
    /\ \E text \in OutputTexts : Step(r, executor_return(runs[r], text))
    /\ UNCHANGED <<prompts, context_file, refs>>

\* mutant: the failure of a specialist is caught and the next block runs
executor_raise_caught(run) == [run EXCEPT !.seq_i = @ + 1, !.pc = "seq"]

\* client.messages.create raises inside a specialist
executor_raise(run) == Raise(run, "APIError")

ExecutorRaises(r) ==
    /\ CanRun(r)
    /\ runs[r].pc = "await_executor"
    /\ Step(r, executor_raise(runs[r]))
    /\ UNCHANGED <<prompts, context_file, refs>>

\* return results
SequencerReturns(r) ==
    /\ CanRun(r)
    /\ runs[r].pc = "seq"
    /\ runs[r].seq_i = Len(SeqOrder) + 1
    /\ Step(r, Goto([runs[r] EXCEPT !.specialist_results = runs[r].results],
                    "execute_gsd"))
    /\ UNCHANGED <<prompts, context_file, refs>>

(***************************************************************************)
(* Step 5: _execute_gsd writes the context file.                           *)
(***************************************************************************)
\* mutant: an empty output is written as null (`context.get(...) or None`)
gsd_payload_or_none(user_story, context) ==
    LET get(key) == IF Truthy(dict_get(context, key))
                    THEN dict_get(context, key) ELSE PyNone
    IN  [exists |-> TRUE, user_story |-> user_story,
         research      |-> get("researcher"),
         architecture  |-> get("architect"),
         documentation |-> get("documenter"),
         security      |-> get("security")]

gsd_payload(user_story, context) ==
    [exists |-> TRUE, user_story |-> user_story,
     research      |-> dict_get(context, "researcher"),
     architecture  |-> dict_get(context, "architect"),
     documentation |-> dict_get(context, "documenter"),
     security      |-> dict_get(context, "security")]

ExecuteGsd(r) ==
    /\ CanRun(r)
    /\ runs[r].pc = "execute_gsd"
    /\ \/ LET payload == gsd_payload(runs[r].user_story,
                                     runs[r].specialist_results)
          IN  /\ context_file' = payload
              /\ Step(r, Goto([runs[r] EXCEPT !.written = payload],
                              "wait_for_pr"))
       \/ \* context_file.write_text raises
          /\ Step(r, Raise(runs[r], "OSError"))
          /\ UNCHANGED context_file
    /\ UNCHANGED <<prompts, refs>>

(***************************************************************************)
(* Step 6: _wait_for_pr returns the placeholder, handle_request returns.   *)
(***************************************************************************)
wait_for_pr(repo, branch) ==
    <<"h","t","t","p","s",":","/","/","g","i","t","h","u","b",".","c","o","m","/">>
    \o repo \o <<"/","p","u","l","l","/","X","X","X">>

\* mutant: the wait polls for a pull request that is never found
WaitForPr_polls_forever(r) ==
    /\ CanRun(r)
    /\ runs[r].pc = "wait_for_pr"
    /\ UNCHANGED vars

WaitForPr(r) ==
    /\ CanRun(r)
    /\ runs[r].pc = "wait_for_pr"
    /\ Step(r, [runs[r] EXCEPT
                  !.pr_url = wait_for_pr(Repo, runs[r].branch_name),
                  !.status = "returned",
                  !.entered = Append(@, "Done")])
    /\ UNCHANGED <<prompts, context_file, refs>>

(***************************************************************************)
(* Specifications.                                                         *)
(***************************************************************************)
\* the prompt files __init__ can find: all four, or all but one
PromptSets == {Roles} \cup {Roles \ {role} : role \in Roles}

\* branches that can exist before a run
InitialRefs == { {}, {branch_name_of(T_typo)} }

\* what "m" stands for in a response: nothing when it has no "m"
MembersOf(content) ==
    IF "m" \in Range(content) THEN RunStories ELSE {<<>>}

\* one handle_request call on a fresh Orchestrator
Init ==
    /\ \E content \in Contents :
          \E members \in MembersOf(content) :
             runs = [r \in {1} |-> NewRun(content, members)]
    /\ prompts \in PromptSets
    /\ context_file = NoFile
    /\ refs \in InitialRefs
    /\ running = 0

Next ==
    \/ \E r \in RunIds : CreateUserStoryReturns(r)
    \/ \E r \in RunIds : CreateUserStoryRaises(r)
    \/ \E r \in RunIds : DecideAgents(r)
    \/ \E r \in RunIds : CreateBranchGet(r)
    \/ \E r \in RunIds : CreateBranchPost(r)
    \/ \E r \in RunIds : SkipRole(r)
    \/ \E r \in RunIds : InvokeRole(r)
    \/ \E r \in RunIds : ExecutorReturns(r)
    \/ \E r \in RunIds : ExecutorRaises(r)
    \/ \E r \in RunIds : SequencerReturns(r)
    \/ \E r \in RunIds : ExecuteGsd(r)
    \/ \E r \in RunIds : WaitForPr(r)

Spec == Init /\ [][Next]_vars

\* _decide_agents applied to every story of RouterStories
InitRouter ==
    /\ \E story \in RouterStories :
          runs = [r \in {1} |->
                    [NewRun(<<"{", "m", "}">>, <<>>) EXCEPT
                        !.pc = "decide_agents",
                        !.user_story = story,
                        !.entered = <<"Extracting", "Routing">>]]
    /\ prompts = Roles
    /\ context_file = NoFile
    /\ refs = {}
    /\ running = 1

NextRouter ==
    \/ \E r \in RunIds : DecideAgents(r)

SpecRouter == InitRouter /\ [][NextRouter]_vars

\* every list of distinct roles, in every order
RoleLists == UNION {Perms(S) : S \in SUBSET Roles}

\* _spawn_specialists_sequential called on every Role Set, in every order
InitSeq ==
    /\ \E agents \in RoleLists :
          runs = [r \in {1} |->
                    [NewRun(<<"{", "m", "}">>, <<>>)
                     EXCEPT
                        !.pc = "seq",
                        !.user_story = FullStory(Str(T_oauth), <<>>, <<>>),
                        !.agents_needed = agents,
                        !.branch_name = branch_name_of(T_oauth),
                        !.post_status = "created",
                        !.entered = <<"Extracting", "Routing",
                                      "BranchProvisioning", "Sequencing">>]]
    /\ prompts \in PromptSets
    /\ context_file = NoFile
    /\ refs = {branch_name_of(T_oauth)}
    /\ running = 1

NextSeq ==
    \/ \E r \in RunIds : SkipRole(r)
    \/ \E r \in RunIds : InvokeRole(r)
    \/ \E r \in RunIds : ExecutorReturns(r)
    \/ \E r \in RunIds : ExecutorRaises(r)
    \/ \E r \in RunIds : SequencerReturns(r)

SpecSeq == InitSeq /\ [][NextSeq]_vars

(***************************************************************************)
(* Properties of the Role Router, checked under SpecRouter.                *)
(***************************************************************************)
\* the run has a Role Set: _decide_agents has returned
Routed(run) == "BranchProvisioning" \in Range(run.entered)

\* every string of a story: its keys, its string values, its list items
RequestStrings(story) ==
    UNION { {story[i][1]}
            \cup (IF story[i][2].kind = "str" THEN {story[i][2].val} ELSE {})
            \cup (IF story[i][2].kind = "list" THEN Range(story[i][2].val) ELSE {})
          : i \in 1..Len(story) }

\* `word` occurs in the lower-cased text of the request
OccursInRequest(story, word) ==
    \E str \in RequestStrings(story) : Contains(lower(str), word)

\* the keyword lists as the specification gives them
SpecNewFeatureWords ==
    { <<"a","n~","a","d","e">>, <<"i","m","p","l","e","m","e","n","t","a">>,
      <<"c","r","e","a">>, <<"n","u","e","v","a">>,
      <<"a","n~","a","d","i","r">>, <<"a","g","r","e","g","a","r">>,
      <<"a","u","t","h">>, <<"i","n","t","e","g","r","a">>,
      <<"c","o","n","e","c","t","a">> }

SpecSensitiveWords ==
    { <<"a","u","t","h">>, <<"s","e","c","u","r","i","t","y">>,
      <<"p","a","s","s","w","o","r","d">>, <<"t","o","k","e","n">>,
      <<"p","h","a","r","m","a">>, <<"p","a","t","i","e","n","t">>,
      <<"h","i","p","a","a">> }

\* C3: for every Structured Request the Role Set _decide_agents returns
\* contains architect and documenter, and routing has no failure outcome:
\* at the routing step some Role Set can always be returned, and a run is
\* never Failed out of Routing.
C3_RouterAlwaysArchitectDocumenter ==
    \A r \in RunIds :
        /\ runs[r].pc = "decide_agents" /\ runs[r].status = "running" =>
              /\ _decide_agents(runs[r].user_story) # {}
              /\ \A agents \in _decide_agents(runs[r].user_story) :
                    {"architect", "documenter"} \subseteq Range(agents)
        /\ Routed(runs[r]) =>
              {"architect", "documenter"} \subseteq Range(runs[r].agents_needed)
        /\ \A i \in 1..(Len(runs[r].entered) - 1) :
              runs[r].entered[i] = "Routing" => runs[r].entered[i + 1] # "Failed"

\* C3 witness: a story with a new-feature keyword has been routed, and to
\* a Role Set with researcher, architect and documenter
C3_Witness ==
    \E r \in RunIds :
        /\ Routed(runs[r])
        /\ OccursInRequest(runs[r].user_story, <<"c","r","e","a">>)
        /\ Range(runs[r].agents_needed) = {"researcher", "architect", "documenter"}

\* C4 (as claimed): researcher is in the Role Set iff one of the new-feature
\* keywords occurs in the lower-cased text of the request, for every keyword
\* of the list; with no keyword of either group the Role Set is exactly
\* {architect, documenter}.
C4_ResearcherIffNewFeatureWord ==
    \A r \in RunIds :
        Routed(runs[r]) =>
            /\ "researcher" \in Range(runs[r].agents_needed)
                  <=> \E word \in SpecNewFeatureWords :
                         OccursInRequest(runs[r].user_story, word)
            /\ (\A word \in SpecNewFeatureWords \cup SpecSensitiveWords :
                   ~OccursInRequest(runs[r].user_story, word))
                  => Range(runs[r].agents_needed) = {"architect", "documenter"}

\* C5: security is in the Role Set iff one of the sensitive-data keywords
\* occurs in the lower-cased serialized text of the request; a request
\* in which "auth" occurs is routed to all four roles.
C5_SecurityIffSensitiveWord ==
    \A r \in RunIds :
        LET serialized == lower(json_dumps(runs[r].user_story))
        IN  Routed(runs[r]) =>
               /\ "security" \in Range(runs[r].agents_needed)
                     <=> \E word \in SpecSensitiveWords :
                            Contains(serialized, word)
               /\ OccursInRequest(runs[r].user_story, <<"a","u","t","h">>)
                     => Range(runs[r].agents_needed) = Roles

\* C5 witness: a request whose title holds "Auth" in mixed case has been
\* routed to all four roles
C5_Witness ==
    \E r \in RunIds :
        /\ Routed(runs[r])
        /\ HasKey(runs[r].user_story, K_title)
        /\ Get(runs[r].user_story, K_title) = Str(<<"A","u","t","h">>)
        /\ Range(runs[r].agents_needed) = Roles

(***************************************************************************)
(* Properties of the Sequencer, checked under SpecSeq.                     *)
(***************************************************************************)
\* the position of a role in the sequence of invocations, 0 when absent
InvokedAt(run, role) ==
    IF role \in Range(run.invoked)
    THEN CHOOSE i \in 1..Len(run.invoked) : run.invoked[i] = role
    ELSE 0

\* _spawn_specialists_sequential has returned its results
SequencerReturned(run) == "Publishing" \in Range(run.entered)

\* C1: the architect executor is never invoked before the researcher and
\* the security executors have completed, for each of the two that is a
\* member of the Role Set: once architect is invoked, each such role was
\* invoked earlier and its output is in the Aggregated Context; and while
\* one of them is still to complete, architect has not been invoked.
C1_ArchitectAfterPrerequisites ==
    \A r \in RunIds :
        \A role \in {"researcher", "security"} \cap Range(runs[r].agents_needed) :
            /\ "architect" \in Range(runs[r].invoked) =>
                  /\ role \in DOMAIN runs[r].results
                  /\ 0 < InvokedAt(runs[r], role)
                  /\ InvokedAt(runs[r], role) < InvokedAt(runs[r], "architect")
            /\ role \notin DOMAIN runs[r].results =>
                  "architect" \notin Range(runs[r].invoked)

\* C1 witness: architect has been invoked for a list that names architect
\* first and also holds researcher and security
C1_Witness ==
    \E r \in RunIds :
        /\ Len(runs[r].agents_needed) = 4
        /\ runs[r].agents_needed[1] = "architect"
        /\ runs[r].invoked = <<"researcher", "security", "architect">>
        /\ runs[r].pc = "await_executor"

\* C2: when the Sequencer returns, the keys of the Aggregated Context are
\* exactly the Role Set it was given.
C2_ContextKeysEqualRoleSet ==
    \A r \in RunIds :
        SequencerReturned(runs[r]) =>
            DOMAIN runs[r].specialist_results = Range(runs[r].agents_needed)

\* C2 witness: the Sequencer has returned for the Role Set
\* {researcher, documenter}, with an empty researcher output
C2_Witness ==
    \E r \in RunIds :
        /\ SequencerReturned(runs[r])
        /\ Range(runs[r].agents_needed) = {"researcher", "documenter"}
        /\ DOMAIN runs[r].specialist_results = {"researcher", "documenter"}
        /\ runs[r].specialist_results["researcher"] = <<>>

(***************************************************************************)
(* Properties of handle_request, checked under Spec.                       *)
(***************************************************************************)
StageOrder ==
    <<"Extracting", "Routing", "BranchProvisioning", "Sequencing",
      "Publishing", "AwaitingCompletion", "Done">>

\* the stages entered, without the final Failed
StagesPassed(run) ==
    IF run.entered[Len(run.entered)] = "Failed"
    THEN SubSeq(run.entered, 1, Len(run.entered) - 1)
    ELSE run.entered

Entered(run, stage) == stage \in Range(run.entered)

C7_RejectedBranchFailsRun ==
    \A r \in RunIds :
        runs[r].post_status = "rejected" =>
            /\ runs[r].status = "raised"
            /\ StageOfPc(runs[r].pc) = "BranchProvisioning"
            /\ ~runs[r].written.exists
            /\ runs[r].pr_url = <<>>

\* C8: when a role executor fails the error propagates at once: every
\* executor invoked has returned its output, is awaited, or is the last one
\* invoked and its failure ended the run; in a run that failed during
\* Sequencing no later role is invoked, the Sequencer returns nothing, and
\* the partial Aggregated Context is not written to the handoff payload.
C8_ExecutorFailureAborts ==
    \A r \in RunIds :
        LET run == runs[r]
        IN  /\ \A i \in 1..Len(run.invoked) :
                  \/ run.invoked[i] \in DOMAIN run.results
                  \/ /\ i = Len(run.invoked)
                     /\ run.invoked[i] = SeqOrder[run.seq_i]
                     /\ \/ run.status = "running" /\ run.pc = "await_executor"
                        \/ run.status = "raised" /\ StageOfPc(run.pc) = "Sequencing"
            /\ run.status = "raised" /\ StageOfPc(run.pc) = "Sequencing" =>
                  /\ run.specialist_results = <<>>
                  /\ ~run.written.exists
                  /\ ~context_file.exists
                  /\ run.pr_url = <<>>
                  /\ ~Entered(run, "Publishing")

\* C8 witness: the generator failed under the architect after researcher
\* had returned its output; documenter, a member, was not invoked
C8_Witness ==
    \E r \in RunIds :
        /\ runs[r].status = "raised"
        /\ runs[r].error = "APIError"
        /\ runs[r].invoked = <<"researcher", "architect">>
        /\ DOMAIN runs[r].results = {"researcher"}
        /\ "documenter" \in Range(runs[r].agents_needed)

\* the response holds a JSON object somewhere
HasJsonObject(content) ==
    \E i \in 1..Len(content) : \E j \in i..Len(content) :
        SubSeq(content, i, j) \in { <<"{", "}">>, <<"{", "m", "}">> }

\* the generator has answered the specification request of the run
ResponseReceived(run) ==
    ~(run.pc = "create_user_story"
        /\ (run.status = "running" \/ run.error = "APIError"))

\* C9: when the response of the specification stage holds no JSON object
\* the run is Failed at Extracting with a parse error, and nothing of
\* routing, branch provisioning, role execution, publishing or waiting
\* has been done.
C9_NoJsonFailsAtExtracting ==
    \A r \in RunIds :
        LET run == runs[r]
        IN  ResponseReceived(run) /\ ~HasJsonObject(run.content) =>
               /\ run.status = "raised"
               /\ run.pc = "create_user_story"
               /\ run.error \in {"ValueError", "JSONDecodeError"}
               /\ run.entered = <<"Extracting", "Failed">>
               /\ run.agents_needed = <<>>
               /\ run.branch_name = <<>>
               /\ run.post_status = "none"
               /\ run.invoked = <<>>
               /\ ~run.written.exists
               /\ ~context_file.exists
               /\ run.pr_url = <<>>

\* C9 witness: a response of prose alone has failed the run with the
\* ValueError of a search without match
C9_Witness ==
    \E r \in RunIds :
        /\ runs[r].content = <<"w", "w">>
        /\ runs[r].status = "raised"
        /\ runs[r].error = "ValueError"

\* the exceptions the code of a stage lets out to the caller
RaisedAt(stage) ==
    CASE stage = "Extracting" ->
            {"APIError", "ValueError", "JSONDecodeError", "KeyError"}
      [] stage = "BranchProvisioning" ->
            {"KeyError", "AttributeError", "ConnectionError"}
      [] stage = "Sequencing" -> {"KeyError", "APIError"}
      [] stage = "Publishing" -> {"OSError"}
      [] OTHER -> {}

\* C10 (as claimed): a run ends by returning a pull-request reference or
\* by raising one error, and the error the caller gets identifies the
\* stage that failed: no other stage lets out the same error.
C10_ErrorIdentifiesStage ==
    \A r \in RunIds :
        LET run == runs[r]
        IN  /\ run.status = "returned" => run.pr_url # <<>> /\ run.error = "none"
            /\ run.status = "raised" =>
                  /\ run.pr_url = <<>>
                  /\ run.error \in RaisedAt(StageOfPc(run.pc))
                  /\ {stage \in Range(StageOrder) : run.error \in RaisedAt(stage)}
                        = {StageOfPc(run.pc)}

(***************************************************************************)
(* Properties of the Specification Extractor, checked under Spec.          *)
(***************************************************************************)
\* _create_user_story has returned a dict to handle_request
ExtractorReturned(run) ==
    /\ ResponseReceived(run)
    /\ run.error \notin {"ValueError", "JSONDecodeError"}

\* the five fields of a Structured Request, each of its type
FivePopulated(story) ==
    /\ \A key \in {K_title, K_summary, K_technical_notes, K_estimated_complexity} :
          HasKey(story, key) /\ Get(story, key).kind = "str"
    /\ HasKey(story, K_acceptance_criteria)
    /\ Get(story, K_acceptance_criteria).kind = "list"

\* C11 (as claimed): a Structured Request the extractor returns has all
\* five fields populated; a JSON object with a field missing or mistyped
\* makes the extractor fail instead of being returned.
C11_ReturnedRequestHasFiveFields ==
    \A r \in RunIds :
        ExtractorReturned(runs[r]) => FivePopulated(runs[r].user_story)

(***************************************************************************)
(* The Sequencer followed by the Handoff Publisher, on every Role Set.     *)
(***************************************************************************)
NextHandoff ==
    \/ \E r \in RunIds : SkipRole(r)
    \/ \E r \in RunIds : InvokeRole(r)
    \/ \E r \in RunIds : ExecutorReturns(r)
    \/ \E r \in RunIds : ExecutorRaises(r)
    \/ \E r \in RunIds : SequencerReturns(r)
    \/ \E r \in RunIds : ExecuteGsd(r)

SpecHandoff == InitSeq /\ [][NextHandoff]_vars

\* the entry of the handoff payload that belongs to a role
PayloadEntry(payload, role) ==
    CASE role = "researcher" -> payload.research
      [] role = "architect"  -> payload.architecture
      [] role = "documenter" -> payload.documentation
      [] OTHER               -> payload.security

\* C12: the handoff payload written holds the Structured Request unchanged
\* and one entry for each of the four roles: the output of the role when
\* the Aggregated Context has one (an empty text included), null otherwise.
C12_PayloadMirrorsContext ==
    \A r \in RunIds :
        runs[r].written.exists =>
            /\ context_file = runs[r].written
            /\ context_file.user_story = runs[r].user_story
            /\ \A role \in Roles :
                  PayloadEntry(context_file, role) =
                     IF role \in DOMAIN runs[r].results
                     THEN [some |-> TRUE, text |-> runs[r].results[role]]
                     ELSE [some |-> FALSE, text |-> <<>>]

\* C12 witness: the payload is written for the Role Set
\* {security, documenter}, security having returned an empty text
C12_Witness ==
    \E r \in RunIds :
        /\ context_file.exists
        /\ Range(runs[r].agents_needed) = {"security", "documenter"}
        /\ context_file.security = [some |-> TRUE, text |-> <<>>]
        /\ context_file.documentation = [some |-> TRUE, text |-> <<"t","x","t">>]
        /\ ~context_file.research.some
        /\ ~context_file.architecture.some

(***************************************************************************)
(* _slugify and the branch name, on every short title over a small         *)
(* alphabet: letters of both cases, a digit, the separator, a blank and a  *)
(* non-ASCII letter.                                                       *)
(***************************************************************************)
\* length of a title given to _slugify
MaxTitleLen == 4

TitleChars == {"a", "B", "9", "-", " ", "N~"}

SlugTitles == UNION {[1..n -> TitleChars] : n \in 0..MaxTitleLen}

\* handle_request at line 68, for a story with any of the titles
InitSlug ==
    /\ \E title \in SlugTitles :
          runs = [r \in {1} |->
                    [NewRun(<<"{", "m", "}">>, <<>>) EXCEPT
                        !.pc = "create_branch_get",
                        !.user_story = FullStory(Str(title), <<>>, <<>>),
                        !.agents_needed = <<"architect", "documenter">>,
                        !.entered = <<"Extracting", "Routing",
                                      "BranchProvisioning">>]]
    /\ prompts = Roles
    /\ context_file = NoFile
    /\ refs = {}
    /\ running = 1

NextSlug ==
    \/ \E r \in RunIds : CreateBranchGet(r)

SpecSlug == InitSlug /\ [][NextSlug]_vars

\* the slug of a branch name: what follows "feature/"
SlugOf(branch_name) == SubSeq(branch_name, 9, Len(branch_name))

\* C13 (as claimed): for every title the slug holds only lower-case ASCII
\* alphanumerics and single "-" separators, none leading or trailing, and
\* the branch name "feature/<slug>" does not end in a separator.
C13_SlugIsRefSafe ==
    \A r \in RunIds :
        runs[r].branch_name # <<>> =>
            LET name == runs[r].branch_name
                slug == SlugOf(name)
            IN  /\ SubSeq(name, 1, 8) = <<"f","e","a","t","u","r","e","/">>
                /\ \A i \in 1..Len(slug) : slug[i] \in AsciiLowerAlnum \cup {"-"}
                /\ \A i \in 1..(Len(slug) - 1) : ~(slug[i] = "-" /\ slug[i + 1] = "-")
                /\ slug # <<>> => slug[1] # "-" /\ slug[Len(slug)] # "-"
                /\ name[Len(name)] \notin {"-", "/"}

\* C14: deriving the slug is idempotent: the slug of a slug is that slug.
\* (That two calls on one title agree is how an operator behaves; the code
\* reads nothing but its argument.)
C14_SlugifyIdempotent ==
    \A r \in RunIds :
        runs[r].branch_name # <<>> =>
            _slugify(SlugOf(runs[r].branch_name)) = SlugOf(runs[r].branch_name)

\* C14 witness: the title "B -a" has been slugged to "b-a"
C14_Witness ==
    \E r \in RunIds :
        /\ Get(runs[r].user_story, K_title).val = <<"B", " ", "-", "a">>
        /\ runs[r].branch_name = <<"f","e","a","t","u","r","e","/","b","-","a">>

(***************************************************************************)
(* The Role Set as a set, checked under SpecRouter.                        *)
(***************************************************************************)
\* C15: the Role Set _decide_agents returns never names a role more than
\* once, whichever keyword groups match: none, one, or both (the keyword
\* "auth" is in both groups).
C15_RoleSetHasNoDuplicate ==
    \A r \in RunIds :
        Routed(runs[r]) =>
            /\ Len(runs[r].agents_needed)
                  = Cardinality(Range(runs[r].agents_needed))
            /\ \A i, j \in 1..Len(runs[r].agents_needed) :
                  runs[r].agents_needed[i] = runs[r].agents_needed[j] => i = j

\* C15 witness: a request titled "auth", which matches both groups, has
\* been routed to a list of four roles
C15_Witness ==
    \E r \in RunIds :
        /\ Routed(runs[r])
        /\ HasKey(runs[r].user_story, K_title)
        /\ Get(runs[r].user_story, K_title) = Str(<<"a","u","t","h">>)
        /\ Len(runs[r].agents_needed) = 4

(***************************************************************************)
(* The order of invocation, checked under SpecSeq.                         *)
(***************************************************************************)
\* the order the specification gives
StableOrder == <<"researcher", "security", "architect", "documenter">>

\* the stable order restricted to the members of a Role Set
StableOrderOf(members) ==
    SelectSeq(StableOrder, LAMBDA role : role \in members)

IsPrefix(s, t) == Len(s) <= Len(t) /\ s = SubSeq(t, 1, Len(s))

\* C16: the Sequencer invokes the executors in the order researcher,
\* security, architect, documenter restricted to the members of the Role
\* Set, whatever the order of the list it was given: the invocations made
\* so far are the beginning of that sequence (so no role is invoked twice
\* and no non-member is invoked), and when the Sequencer returns they are
\* the whole of it, which depends on the set only and not on its order.
C16_InvocationOrderIsStable ==
    \A r \in RunIds :
        LET expected == StableOrderOf(Range(runs[r].agents_needed))
        IN  /\ IsPrefix(runs[r].invoked, expected)
            /\ SequencerReturned(runs[r]) => runs[r].invoked = expected

\* C16 witness: the Sequencer has returned for the list documenter,
\* architect, security, researcher after invoking the four in the stable
\* order
C16_Witness ==
    \E r \in RunIds :
        /\ SequencerReturned(runs[r])
        /\ runs[r].agents_needed
              = <<"documenter", "architect", "security", "researcher">>
        /\ runs[r].invoked
              = <<"researcher", "security", "architect", "documenter">>

(***************************************************************************)
(* What the architect is given, checked under SpecSeq.                     *)
(***************************************************************************)
\* C17 (as claimed): when the architect executor runs, its payload holds
\* the researcher output iff the Aggregated Context has a researcher entry
\* at that time, and the security output iff it has a security entry, for
\* every output text, the empty text included.
C17_ArchitectReceivesExistingOutputs ==
    \A r \in RunIds :
        "architect" \in Range(runs[r].invoked) =>
            /\ "research" \in runs[r].architect_context
                  <=> "researcher" \in DOMAIN runs[r].results
            /\ "security" \in runs[r].architect_context
                  <=> "security" \in DOMAIN runs[r].results

\* a well-formed JSON object is the first thing in braces of the response,
\* and a brace closes somewhere in the text after it
FirstObjectThenBraces(content) ==
    \E i \in 1..Len(content) : \E j \in i..Len(content) :
        /\ \A k \in 1..(i - 1) : content[k] = "w"
        /\ SubSeq(content, i, j) \in { <<"{", "}">>, <<"{", "m", "}">> }
        /\ \E k \in (j + 1)..Len(content) : content[k] = "}"

\* C18 (as claimed): when the response holds a well-formed JSON object
\* followed by text with braces of its own (a second object, a stray "}"),
\* the extractor returns that first object: it does not fail with a parse
\* error.
C18_FirstBalancedObjectIsParsed ==
    \A r \in RunIds :
        ResponseReceived(runs[r]) /\ FirstObjectThenBraces(runs[r].content) =>
            /\ ExtractorReturned(runs[r])
            /\ runs[r].error # "JSONDecodeError"

(***************************************************************************)
(* Two handle_request calls on one Orchestrator, interleaved at their      *)
(* awaits.                                                                 *)
(***************************************************************************)
\* asyncio.gather of two handle_request calls: both wait for the generator
InitTwoRuns ==
    /\ runs = [r \in {1, 2} |->
                 NewRun(<<"{", "m", "}">>,
                        IF r = 1 THEN FullStory(Str(T_typo), <<>>, <<>>)
                                 ELSE FullStory(Str(T_token), <<>>, <<>>))]
    /\ prompts = Roles
    /\ context_file = NoFile
    /\ refs = {}
    /\ running = 0

SpecTwoRuns == InitTwoRuns /\ [][Next]_vars

\* C19 (as claimed): two interleaved runs share no mutable state: no step
\* of one run changes what the other has handed off, so the payload a run
\* has published for the downstream framework stays the one it wrote.
C19_RunsShareNoMutableState ==
    \A r \in RunIds :
        runs[r].written.exists => context_file = runs[r].written

(***************************************************************************)
(* Termination.  Every await of handle_request is on an external call;     *)
(* when each of them returns or raises, the event loop resumes the run, so *)
(* a step that is possible is eventually taken.                            *)
(***************************************************************************)
\* responses of each kind: an object, an empty object, prose, an object
\* followed by a brace
FairContents ==
    { <<"{", "m", "}">>, <<"w", "{", "}">>, <<"w">>, <<"{", "m", "}", "}">> }

\* the member lists of a generated object: a request for all four roles,
\* one for architect and documenter alone, one without "summary" and one
\* without "title"
FairStories ==
    { FullStory(Str(<<"a","u","t","h">>), <<>>, <<>>),
      FullStory(Str(<<"f","i","x">>), <<>>, <<>>),
      << <<K_title, Str(<<"f","i","x">>)>> >>,
      << <<K_summary, Str(<<"o","k">>)>> >> }

\* one handle_request call, on a response of each kind, with every prompt
\* file found or the documenter's missing
InitFair ==
    /\ \E content \in FairContents :
          \E members \in (IF "m" \in Range(content) THEN FairStories
                          ELSE {<<>>}) :
             runs = [r \in {1} |-> NewRun(content, members)]
    /\ prompts \in {Roles, Roles \ {"documenter"}}
    /\ context_file = NoFile
    /\ refs = {}
    /\ running = 0

SpecFair == InitFair /\ [][Next]_vars /\ WF_vars(Next)

\* a finished run: Done with a pull-request reference, or Failed with an
\* error
Terminal(run) ==
    \/ run.status = "returned" /\ run.pr_url # <<>> /\ run.error = "none"
    \/ run.status = "raised" /\ run.error # "none"

NoRepeat(s) == \A i, j \in 1..Len(s) : s[i] = s[j] => i = j

\* C20: when every external call returns or raises, every run of
\* handle_request eventually is Done with a pull-request reference or
\* Failed with an error; on the way no stage is entered twice and no role
\* executor is invoked twice, so the run takes at most seven stage entries
\* and four executor calls.
C20_EveryRunTerminates ==
    /\ [](\A r \in RunIds :
            /\ NoRepeat(runs[r].entered)
            /\ NoRepeat(runs[r].invoked)
            /\ Len(runs[r].entered) <= 7
            /\ Len(runs[r].invoked) <= 4)
    /\ <>(\A r \in RunIds : Terminal(runs[r]))

\* C20 witness: a run is Done with its pull-request reference after the
\* seven stages and the four executors
C20_Witness ==
    \E r \in RunIds :
        /\ runs[r].status = "returned"
        /\ runs[r].pr_url # <<>>
        /\ Len(runs[r].entered) = 7
        /\ Len(runs[r].invoked) = 4

====
